---- MODULE Spec2Model ----
(***************************************************************************)
(* A model of mailio's message class (src/src/message.cpp): the RFC 5322   *)
(* address-list parser, the address/mailbox formatter, the header codec    *)
(* and the multipart/attachment logic.                                     *)
(*                                                                         *)
(* Text is a sequence of one-character strings.                            *)
(***************************************************************************)
EXTENDS Integers, Sequences, FiniteSets, TLC

(***************************************************************************)
(* Bounds of the model.                                                    *)
(***************************************************************************)
\* longest address list fed character by character to parse_address_list
MaxLen == 10
\* most child parts a message gets
MaxParts == 3
\* most mailboxes / groups added to a recipient collection
MaxRcpt == 2
\* longest address list with quoted names that parse_address_list reads
MaxQuoted == 7
\* most mailboxes added to the cc and to the bcc recipients
MaxCc == 1
\* longest name and longest address handed to format_address
MaxText == 2

(***************************************************************************)
(* Characters and character classes.                                       *)
(***************************************************************************)
QUOTE_CHAR == "\""
LESS_THAN_CHAR == "<"
GREATER_THAN_CHAR == ">"
MONKEY_CHAR == "@"
COMMA_CHAR == ","
COLON_CHAR == ":"
SEMICOLON_CHAR == ";"
SPACE_CHAR == " "
BACKSLASH_CHAR == "\\"
LEFT_PARENTHESIS_CHAR == "("
RIGHT_PARENTHESIS_CHAR == ")"

UpperChars ==
    <<"A","B","C","D","E","F","G","H","I","J","K","L","M",
      "N","O","P","Q","R","S","T","U","V","W","X","Y","Z">>
LowerChars ==
    <<"a","b","c","d","e","f","g","h","i","j","k","l","m",
      "n","o","p","q","r","s","t","u","v","w","x","y","z">>

Range(s) == {s[i] : i \in 1..Len(s)}

\* isalpha, isdigit, isspace of <cctype> in the "C" locale
isalpha(ch) == ch \in Range(UpperChars) \cup Range(LowerChars)
isdigit(ch) == ch \in {"0","1","2","3","4","5","6","7","8","9"}
isspace(ch) == ch \in {" ", "\t", "\n", "\r", "\f"}

\* the grave accent, which a TLA+ string cannot hold, as a character of its own
GRAVE_CHAR == "GRAVE"

\* const string message::ATEXT: ! # $ % & ' * + - . / = ? ^ _ grave { | } ~
ATEXT ==
    {"!","#","$","%","&","'","*","+","-",".","/","=","?","^","_",GRAVE_CHAR,"{","|","}","~"}
\* const string message::DTEXT: atext with monkey
DTEXT == ATEXT \cup {"@"}
\* message::QTEXT, the characters of QTEXT_REGEX besides letters and digits
QTEXT ==
    {"\t"," ","!","#","$","%","&","'","(",")","*","+",",","-",".","@","/",":",";",
     "<","=",">","?","[","]","^","_",GRAVE_CHAR,"{","|","}","~"}

\* the test  isalpha || isdigit || ATEXT.find != npos  on the character read
IsAtext(ch) == isalpha(ch) \/ isdigit(ch) \/ ch \in ATEXT

\* regex_match(s, [class]*): every character of s is in the class
MatchesAll(s, class) == \A i \in 1..Len(s) : s[i] \in class

\* the character classes of the three regexes of format_address
NameRegexClass == Range(UpperChars) \cup Range(LowerChars)
                    \cup {"0","1","2","3","4","5","6","7","8","9"} \cup {" ", "\t"}
QTEXT_REGEX == Range(UpperChars) \cup Range(LowerChars)
                 \cup {"0","1","2","3","4","5","6","7","8","9"} \cup QTEXT
DTEXT_REGEX == Range(UpperChars) \cup Range(LowerChars)
                 \cup {"0","1","2","3","4","5","6","7","8","9"} \cup DTEXT
\* ATEXT_REGEX of format_mailbox
ATEXT_REGEX == Range(UpperChars) \cup Range(LowerChars)
                 \cup {"0","1","2","3","4","5","6","7","8","9"} \cup ATEXT

\* boost::trim / boost::trim_copy: drop leading and trailing isspace characters
RECURSIVE trim_left(_)
trim_left(s) ==
    IF s # <<>> /\ isspace(Head(s)) THEN trim_left(Tail(s)) ELSE s

RECURSIVE trim_right(_)
trim_right(s) ==
    IF s # <<>> /\ isspace(s[Len(s)]) THEN trim_right(SubSeq(s, 1, Len(s) - 1)) ELSE s

trim(s) == trim_right(trim_left(s))

(***************************************************************************)
(* mail_address, mail_group, mailboxes.                                    *)
(***************************************************************************)
mail_address(n, a) == [name |-> n, address |-> a]
EmptyAddress == mail_address(<<>>, <<>>)
mail_group(n, m) == [name |-> n, members |-> m]
EmptyGroup == mail_group(<<>>, <<>>)
mailboxes(a, g) == [addresses |-> a, groups |-> g]
EmptyMailboxes == mailboxes(<<>>, <<>>)
\* mailboxes::empty()
mailboxes_empty(m) == m.addresses = <<>> /\ m.groups = <<>>

(***************************************************************************)
(* parse_address_list: the locals of the function are one record,          *)
(*   state, token, mail_list, mail_group_list, cur_address, cur_group,     *)
(*   mail_addrs, monkey_found, group_found                                 *)
(* and thrown, which is TRUE once message_error has been thrown.           *)
(* Each case of the switch is an operator of the locals, the character     *)
(* read and last, the test  ch == address_list.end() - 1.                  *)
(*                                                                         *)
(* History: a mailbox pushed into mail_addrs or mail_list carries          *)
(* in_group, the value of group_found at the push; the value returned by   *)
(* parse_address_list does not have it.                                    *)
(***************************************************************************)
ParserInit ==
    [state |-> "BEGIN", token |-> <<>>, mail_list |-> <<>>, mail_group_list |-> <<>>,
     cur_address |-> EmptyAddress, cur_group |-> EmptyGroup, mail_addrs |-> <<>>,
     monkey_found |-> FALSE, group_found |-> FALSE, thrown |-> FALSE]

\* throw message_error("Bad address or group."): the locals are destroyed; the
\* record keeps the state the machine was in
Throw(p) == [ParserInit EXCEPT !.state = p.state, !.thrown = TRUE]

\* the element that push_back(cur_address) appends
Pushed(p) ==
    [name |-> p.cur_address.name, address |-> p.cur_address.address,
     in_group |-> p.group_found]

\* mail_addrs.push_back(cur_address)
PushAddrs(p) == [p EXCEPT !.mail_addrs = Append(@, Pushed(p))]

\* mail_list.insert(mail_list.end(), mail_addrs.begin(), mail_addrs.end())
InsertList(p) == [p EXCEPT !.mail_list = @ \o p.mail_addrs]

\* cur_group.add(mail_addrs); mail_group_list.push_back(cur_group)
PushGroup(p) ==
    LET g == [p.cur_group EXCEPT !.members = @ \o p.mail_addrs]
    IN  [p EXCEPT !.cur_group = g, !.mail_group_list = Append(@, g)]

\* case state_t::BEGIN
StBegin(p, ch, last) ==
    LET q == IF isspace(ch) THEN p
             ELSE IF IsAtext(ch)
                  THEN [p EXCEPT !.token = Append(@, ch), !.state = "NAMEADDRGRP"]
             ELSE IF ch = QUOTE_CHAR THEN [p EXCEPT !.state = "QNAMEADDRBEG"]
             ELSE IF ch = LESS_THAN_CHAR THEN [p EXCEPT !.state = "ADDRBRBEG"]
             ELSE Throw(p)
    IN  IF q.thrown \/ ~last THEN q
        ELSE IF q.state = "BEGIN" THEN q
        ELSE IF q.state = "NAMEADDRGRP"
             THEN IF q.group_found THEN Throw(q)
                  ELSE IF q.token # <<>>
                       THEN LET r == [q EXCEPT !.cur_address.name = trim(q.token)]
                            IN  [r EXCEPT !.mail_list = Append(@, Pushed(r))]
                       ELSE q
        ELSE Throw(q)

\* a faulty colon arm: the addresses found before the group are neither stored in
\* the list nor cleared, so they become members of the group
NameAddrGrpColon_M(p) ==
    IF p.group_found THEN Throw(p)
    ELSE [p EXCEPT !.cur_group.name = p.token, !.token = <<>>,
                   !.group_found = TRUE, !.state = "GROUPBEG"]

\* a faulty colon arm: a group is begun inside a group
NameAddrGrpNested_M(p) ==
    [InsertList(p) EXCEPT !.mail_addrs = <<>>, !.cur_group.name = p.token,
                          !.token = <<>>, !.group_found = TRUE,
                          !.state = "GROUPBEG"]

\* the colon arm of case state_t::NAMEADDRGRP
NameAddrGrpColon(p) ==
    IF p.group_found THEN Throw(p)
    ELSE [InsertList(p) EXCEPT !.mail_addrs = <<>>, !.cur_group.name = p.token,
                               !.token = <<>>, !.group_found = TRUE,
                               !.state = "GROUPBEG"]

\* case state_t::NAMEADDRGRP
StNameAddrGrp(p, ch, last) ==
    LET q == IF IsAtext(ch) THEN [p EXCEPT !.token = Append(@, ch)]
             ELSE IF ch = MONKEY_CHAR
                  THEN [p EXCEPT !.token = Append(@, ch), !.state = "ADDR",
                                 !.monkey_found = TRUE]
             ELSE IF isspace(ch)
                  THEN [p EXCEPT !.token = Append(@, ch), !.state = "NAME"]
             ELSE IF ch = COMMA_CHAR
                  THEN LET r == [p EXCEPT !.cur_address.name = trim(p.token),
                                          !.token = <<>>]
                       IN  [PushAddrs(r) EXCEPT !.cur_address = EmptyAddress,
                                                !.monkey_found = FALSE,
                                                !.state = "BEGIN"]
             ELSE IF ch = COLON_CHAR THEN NameAddrGrpColon(p)
             ELSE Throw(p)
    IN  IF q.thrown \/ ~last THEN q
        ELSE IF q.state = "NAMEADDRGRP"
             THEN IF q.group_found THEN Throw(q)
                  ELSE IF q.token # <<>>
                       THEN InsertList(PushAddrs([q EXCEPT !.cur_address.name = q.token]))
                       ELSE q
        ELSE IF q.state = "ADDR" THEN Throw(q)
        ELSE IF q.state = "NAME" THEN Throw(q)
        ELSE IF q.state = "BEGIN"
             THEN IF q.group_found THEN Throw(q) ELSE InsertList(q)
        ELSE IF q.state = "GROUPBEG" THEN Throw(q)
        ELSE q

\* case state_t::NAME
StName(p, ch, last) ==
    LET q == IF IsAtext(ch) \/ isspace(ch) THEN [p EXCEPT !.token = Append(@, ch)]
             ELSE IF ch = LESS_THAN_CHAR
                  THEN [p EXCEPT !.cur_address.name = trim(p.token), !.token = <<>>,
                                 !.state = "ADDRBRBEG"]
             ELSE Throw(p)
    IN  IF q.thrown \/ ~last THEN q ELSE Throw(q)

\* the semicolon arm of case state_t::ADDR
AddrSemicolon(p) ==
    IF p.group_found
    THEN LET r == PushAddrs([p EXCEPT !.cur_address.address = p.token, !.token = <<>>])
             g == PushGroup([r EXCEPT !.cur_address = EmptyAddress])
         IN  [g EXCEPT !.mail_addrs = <<>>, !.cur_group = EmptyGroup,
                       !.group_found = FALSE, !.state = "GROUPEND"]
    ELSE Throw(p)

\* case state_t::ADDR
StAddr(p, ch, last) ==
    LET q == IF IsAtext(ch) THEN [p EXCEPT !.token = Append(@, ch)]
             ELSE IF ch = MONKEY_CHAR
                  THEN [p EXCEPT !.token = Append(@, ch), !.monkey_found = TRUE]
             ELSE IF isspace(ch) THEN p
             ELSE IF ch = COMMA_CHAR
                  THEN LET r == PushAddrs([p EXCEPT !.cur_address.address = p.token,
                                                    !.token = <<>>])
                       IN  IF ~p.monkey_found THEN Throw(r)
                           ELSE [r EXCEPT !.cur_address = EmptyAddress,
                                          !.monkey_found = FALSE, !.state = "BEGIN"]
             ELSE IF ch = SEMICOLON_CHAR THEN AddrSemicolon(p)
             ELSE IF ch = LEFT_PARENTHESIS_CHAR
                  THEN IF p.group_found THEN Throw(p)
                       ELSE LET r == PushAddrs([p EXCEPT !.cur_address.address = p.token,
                                                         !.token = <<>>])
                            IN  IF ~p.monkey_found THEN Throw(r)
                                ELSE [InsertList([r EXCEPT !.cur_address = EmptyAddress])
                                        EXCEPT !.state = "COMMBEG"]
             ELSE Throw(p)
    IN  IF q.thrown \/ ~last THEN q
        ELSE IF q.state = "ADDR"
             THEN IF q.group_found THEN Throw(q)
                  ELSE IF ~q.monkey_found THEN Throw(q)
                  ELSE IF q.token # <<>>
                       THEN InsertList(PushAddrs([q EXCEPT !.cur_address.address = q.token]))
                       ELSE q
        ELSE IF q.state = "BEGIN"
             THEN IF q.group_found THEN Throw(q) ELSE InsertList(q)
        ELSE IF q.state = "GROUPEND" THEN q
        ELSE IF q.state = "COMMBEG" THEN Throw(q)
        ELSE q

\* a faulty case: the backslash is kept in the name
StQNameAddrBeg_M(p, ch, last) ==
    LET q == IF isalpha(ch) \/ isdigit(ch) \/ isspace(ch) \/ ch \in QTEXT
                   \/ ch = BACKSLASH_CHAR
                  THEN [p EXCEPT !.token = Append(@, ch)]
             ELSE IF ch = QUOTE_CHAR
                  THEN [p EXCEPT !.cur_address.name = p.token, !.token = <<>>,
                                 !.state = "QNAMEADDREND"]
             ELSE Throw(p)
    IN  IF q.thrown \/ ~last THEN q ELSE Throw(q)

\* case state_t::QNAMEADDRBEG
StQNameAddrBeg(p, ch, last) ==
    LET q == IF isalpha(ch) \/ isdigit(ch) \/ isspace(ch) \/ ch \in QTEXT
                  THEN [p EXCEPT !.token = Append(@, ch)]
             ELSE IF ch = BACKSLASH_CHAR THEN p
             ELSE IF ch = QUOTE_CHAR
                  THEN [p EXCEPT !.cur_address.name = p.token, !.token = <<>>,
                                 !.state = "QNAMEADDREND"]
             ELSE Throw(p)
    IN  IF q.thrown \/ ~last THEN q ELSE Throw(q)

\* case state_t::QNAMEADDREND
StQNameAddrEnd(p, ch, last) ==
    LET q == IF isspace(ch) THEN p
             ELSE IF ch = LESS_THAN_CHAR THEN [p EXCEPT !.state = "ADDRBRBEG"]
             ELSE Throw(p)
    IN  IF q.thrown \/ ~last THEN q ELSE Throw(q)

\* case state_t::ADDRBRBEG
StAddrBrBeg(p, ch, last) ==
    LET q == IF IsAtext(ch) THEN [p EXCEPT !.token = Append(@, ch)]
             ELSE IF ch = MONKEY_CHAR
                  THEN [p EXCEPT !.token = Append(@, ch), !.monkey_found = TRUE]
             ELSE IF ch = GREATER_THAN_CHAR
                  THEN LET r == PushAddrs([p EXCEPT !.cur_address.address = p.token,
                                                    !.token = <<>>])
                       IN  IF ~p.monkey_found THEN Throw(r)
                           ELSE [r EXCEPT !.cur_address = EmptyAddress,
                                          !.monkey_found = FALSE, !.state = "ADDRBREND"]
             ELSE Throw(p)
    IN  IF q.thrown \/ ~last THEN q
        ELSE IF q.state = "ADDRBRBEG" THEN Throw(q)
        ELSE IF q.state = "ADDRBREND"
             THEN IF q.group_found THEN PushGroup(q) ELSE InsertList(q)
        ELSE q

\* the semicolon arm of case state_t::ADDRBREND
AddrBrEndSemicolon(p) ==
    IF p.group_found
    THEN [PushGroup(p) EXCEPT !.mail_addrs = <<>>, !.cur_group = EmptyGroup,
                              !.group_found = FALSE, !.state = "GROUPEND"]
    ELSE Throw(p)

\* case state_t::ADDRBREND
StAddrBrEnd(p, ch, last) ==
    LET q == IF isspace(ch) THEN p
             ELSE IF ch = COMMA_CHAR THEN [p EXCEPT !.state = "BEGIN"]
             ELSE IF ch = SEMICOLON_CHAR THEN AddrBrEndSemicolon(p)
             ELSE IF ch = LEFT_PARENTHESIS_CHAR
                  THEN IF p.group_found THEN Throw(p)
                       ELSE [InsertList(p) EXCEPT !.state = "COMMBEG"]
             ELSE p
    IN  IF q.thrown \/ ~last THEN q
        ELSE IF q.state = "ADDRBREND" \/ q.state = "BEGIN"
             THEN IF q.group_found THEN Throw(q) ELSE InsertList(q)
        ELSE IF q.state = "COMMBEG" THEN Throw(q)
        ELSE q

\* case state_t::GROUPBEG
StGroupBeg(p, ch, last) ==
    LET q == IF IsAtext(ch) THEN [p EXCEPT !.token = Append(@, ch), !.state = "BEGIN"]
             ELSE IF isspace(ch) THEN p
             ELSE IF ch = LESS_THAN_CHAR THEN [p EXCEPT !.state = "ADDRBRBEG"]
             ELSE IF ch = SEMICOLON_CHAR
                  THEN [PushGroup(p) EXCEPT !.mail_addrs = <<>>, !.cur_group = EmptyGroup,
                                            !.group_found = FALSE, !.state = "GROUPEND"]
             ELSE p
    IN  IF q.thrown \/ ~last THEN q
        ELSE IF q.state = "BEGIN" \/ q.state = "ADDRBRBEG" THEN Throw(q)
        ELSE q

\* case state_t::GROUPEND
StGroupEnd(p, ch, last) ==
    LET q == IF IsAtext(ch) THEN [p EXCEPT !.token = Append(@, ch), !.state = "BEGIN"]
             ELSE IF ch = LEFT_PARENTHESIS_CHAR THEN [p EXCEPT !.state = "COMMBEG"]
             ELSE p
    IN  IF q.thrown \/ ~last THEN q
        ELSE IF q.state = "BEGIN" \/ q.state = "COMMBEG" THEN Throw(q)
        ELSE q

\* case state_t::COMMBEG
StCommBeg(p, ch, last) ==
    IF IsAtext(ch) \/ isspace(ch) THEN p
    ELSE IF ch = RIGHT_PARENTHESIS_CHAR THEN [p EXCEPT !.state = "COMMEND"]
    ELSE Throw(p)

\* a faulty case: white space after a comment ends the line
StCommEnd_M(p, ch, last) ==
    IF isspace(ch) THEN [p EXCEPT !.state = "EOL"] ELSE Throw(p)

\* case state_t::COMMEND
StCommEnd(p, ch, last) ==
    IF isspace(ch) THEN p ELSE Throw(p)

\* case state_t::EOL
StEol(p, ch, last) == PushAddrs(p)

\* the body of the for loop: switch (state)
ParseStep(p, ch, last) ==
    CASE p.state = "BEGIN" -> StBegin(p, ch, last)
      [] p.state = "NAMEADDRGRP" -> StNameAddrGrp(p, ch, last)
      [] p.state = "NAME" -> StName(p, ch, last)
      [] p.state = "ADDR" -> StAddr(p, ch, last)
      [] p.state = "QNAMEADDRBEG" -> StQNameAddrBeg(p, ch, last)
      [] p.state = "QNAMEADDREND" -> StQNameAddrEnd(p, ch, last)
      [] p.state = "ADDRBRBEG" -> StAddrBrBeg(p, ch, last)
      [] p.state = "ADDRBREND" -> StAddrBrEnd(p, ch, last)
      [] p.state = "GROUPBEG" -> StGroupBeg(p, ch, last)
      [] p.state = "GROUPEND" -> StGroupEnd(p, ch, last)
      [] p.state = "COMMBEG" -> StCommBeg(p, ch, last)
      [] p.state = "COMMEND" -> StCommEnd(p, ch, last)
      [] p.state = "EOL" -> StEol(p, ch, last)

\* the for loop over address_list, from character i on
\* (here and below, CHOOSE r \in {e(x) : x \in {v}} : TRUE  is e(v) with v computed
\* once)
RECURSIVE ParseLoop(_, _, _)
ParseLoop(p, address_list, i) ==
    IF i > Len(address_list) \/ p.thrown THEN p
    ELSE CHOOSE r \in {ParseLoop(q, address_list, j) :
                           q \in {ParseStep(p, address_list[i], i = Len(address_list))},
                           j \in {i + 1}} : TRUE

\* a pushed mailbox as a mail_address
Untag(a) == mail_address(a.name, a.address)
UntagAll(as) == [i \in 1..Len(as) |-> Untag(as[i])]
UntagGroups(gs) ==
    [i \in 1..Len(gs) |-> mail_group(gs[i].name, UntagAll(gs[i].members))]

\* return mailboxes(mail_list, mail_group_list)
ParseResult(p) == mailboxes(UntagAll(p.mail_list), UntagGroups(p.mail_group_list))

\* parse_address_list(address_list): [thrown, value]
parse_address_list(address_list) ==
    CHOOSE r \in {[thrown |-> p.thrown,
                    value |-> IF p.thrown THEN EmptyMailboxes ELSE ParseResult(p)] :
                       p \in {ParseLoop(ParserInit, s, 1) : s \in {address_list}}} : TRUE


(***************************************************************************)
(* format_address and format_mailbox.  A call that throws message_error    *)
(* has thrown = TRUE and no value.                                         *)
(***************************************************************************)
Returned(v) == [thrown |-> FALSE, value |-> v]
BadAddressOrGroup == [thrown |-> TRUE, value |-> <<>>]

\* string message::format_address(const string& name, const string& address)
format_address(name, address) ==
    IF name = <<>> /\ address = <<>> THEN Returned(<<>>)
    ELSE IF ~MatchesAll(name, NameRegexClass) /\ ~MatchesAll(name, QTEXT_REGEX)
         THEN BadAddressOrGroup
    ELSE IF address # <<>> /\ ~MatchesAll(address, DTEXT_REGEX)
         THEN BadAddressOrGroup
    ELSE LET snd_name == IF MatchesAll(name, NameRegexClass) THEN name
                         ELSE <<QUOTE_CHAR>> \o name \o <<QUOTE_CHAR>>
             addr == IF address # <<>>
                     THEN <<LESS_THAN_CHAR>> \o address \o <<GREATER_THAN_CHAR>>
                     ELSE <<>>
         IN  Returned(IF snd_name = <<>> THEN addr
                      ELSE snd_name \o (IF addr = <<>> THEN <<>>
                                        ELSE <<SPACE_CHAR>> \o addr))

\* the loops of format_mailbox over addresses (or a group's members), from the
\* i-th on: format_address of each, joined by ", "
RECURSIVE FormatAddresses(_, _)
FormatAddresses(as, i) ==
    IF i > Len(as) THEN Returned(<<>>)
    ELSE LET one == format_address(as[i].name, as[i].address)
             rest == FormatAddresses(as, i + 1)
         IN  IF one.thrown \/ rest.thrown THEN BadAddressOrGroup
             ELSE Returned(one.value
                           \o (IF i # Len(as) THEN <<COMMA_CHAR, SPACE_CHAR>> ELSE <<>>)
                           \o rest.value)

\* the loop of format_mailbox over the groups, from the i-th on
RECURSIVE FormatGroups(_, _)
FormatGroups(gs, i) ==
    IF i > Len(gs) THEN Returned(<<>>)
    ELSE IF ~MatchesAll(gs[i].name, ATEXT_REGEX) THEN BadAddressOrGroup
    ELSE LET members == FormatAddresses(gs[i].members, 1)
             rest == FormatGroups(gs, i + 1)
         IN  IF members.thrown \/ rest.thrown THEN BadAddressOrGroup
             ELSE Returned(gs[i].name \o <<COLON_CHAR, SPACE_CHAR>> \o members.value
                           \o (IF i # Len(gs) THEN <<SEMICOLON_CHAR, SPACE_CHAR>>
                               ELSE <<SEMICOLON_CHAR>>)
                           \o rest.value)

\* string message::format_mailbox(const mailboxes& mailbox_list)
format_mailbox(mailbox_list) ==
    LET addrs == FormatAddresses(mailbox_list.addresses, 1)
        groups == FormatGroups(mailbox_list.groups, 1)
    IN  IF addrs.thrown \/ groups.thrown THEN BadAddressOrGroup
        ELSE Returned(addrs.value
                      \o (IF mailbox_list.groups = <<>> THEN <<>>
                          ELSE <<COMMA_CHAR, SPACE_CHAR>>)
                      \o groups.value)


(***************************************************************************)
(* Date and time: a local_date_time is a record; not_a_date_time is the    *)
(* record with is_not_a_date_time.  zone is the offset from UTC in minutes.*)
(***************************************************************************)
local_date_time(y, mo, d, h, mi, sec, z) ==
    [is_not_a_date_time |-> FALSE, year |-> y, month |-> mo, day |-> d,
     hours |-> h, minutes |-> mi, seconds |-> sec, zone |-> z]
not_a_date_time ==
    [is_not_a_date_time |-> TRUE, year |-> 0, month |-> 0, day |-> 0,
     hours |-> 0, minutes |-> 0, seconds |-> 0, zone |-> 0]

DigitChars == <<"0","1","2","3","4","5","6","7","8","9">>
DigitChar(n) == DigitChars[n + 1]
DigitVal(ch) == CHOOSE n \in 0..9 : DigitChars[n + 1] = ch
TwoDigits(n) == <<DigitChar((n \div 10) % 10), DigitChar(n % 10)>>
FourDigits(n) == TwoDigits(n \div 100) \o TwoDigits(n % 100)
Number(s) ==
    IF Len(s) = 2 THEN DigitVal(s[1]) * 10 + DigitVal(s[2])
    ELSE DigitVal(s[1]) * 1000 + DigitVal(s[2]) * 100 + DigitVal(s[3]) * 10 + DigitVal(s[4])

MonthNames ==
    << <<"J","a","n">>, <<"F","e","b">>, <<"M","a","r">>, <<"A","p","r">>,
       <<"M","a","y">>, <<"J","u","n">>, <<"J","u","l">>, <<"A","u","g">>,
       <<"S","e","p">>, <<"O","c","t">>, <<"N","o","v">>, <<"D","e","c">> >>
\* from Sunday on
WeekdayNames ==
    << <<"S","u","n">>, <<"M","o","n">>, <<"T","u","e">>, <<"W","e","d">>,
       <<"T","h","u">>, <<"F","r","i">>, <<"S","a","t">> >>

\* the day of the week of a date, 0 for Sunday
DayOfWeek(y, mo, d) ==
    LET t == <<0, 3, 2, 5, 0, 3, 5, 1, 4, 6, 2, 4>>
        yy == IF mo < 3 THEN y - 1 ELSE y
    IN  (yy + (yy \div 4) - (yy \div 100) + (yy \div 400) + t[mo] + d) % 7

\* a zone offset as  +HHMM  or  -HHMM
ZoneText(z) ==
    LET a == IF z < 0 THEN 0 - z ELSE z
    IN  <<IF z < 0 THEN "-" ELSE "+">> \o TwoDigits(a \div 60) \o TwoDigits(a % 60)

\* ss << *_date_time  under local_time_facet("%a, %d %b %Y %H:%M:%S %q")
format_date(dt) ==
    WeekdayNames[DayOfWeek(dt.year, dt.month, dt.day) + 1] \o <<",", " ">>
      \o TwoDigits(dt.day) \o <<" ">> \o MonthNames[dt.month] \o <<" ">>
      \o FourDigits(dt.year) \o <<" ">>
      \o TwoDigits(dt.hours) \o <<":">> \o TwoDigits(dt.minutes) \o <<":">>
      \o TwoDigits(dt.seconds) \o <<" ">> \o ZoneText(dt.zone)

\* the regex of parse_date, matched from the left:
\*   ([A-Za-z]{3}[ \t]*,)[ \t]+(\d{1,2}[ \t]+[A-Za-z]{3}[ \t]+\d{4})[ \t]+
\*   (\d{2}:\d{2}:\d{2}[ \t]+(\+|\-)\d{4}).*
\* Adjacent pieces have disjoint first characters, so the match is unique.
BlankClass == {" ", "\t"}
AlphaClass == Range(UpperChars) \cup Range(LowerChars)
DigitClass == Range(DigitChars)

\* the index after the longest run of characters of class from index i
RECURSIVE SkipRun(_, _, _)
SkipRun(s, i, class) ==
    IF i <= Len(s) /\ s[i] \in class THEN SkipRun(s, i + 1, class) ELSE i

\* whether the n characters of s from index i exist and are all in class
HasRun(s, i, n, class) ==
    i + n - 1 <= Len(s) /\ \A k \in i..(i + n - 1) : s[k] \in class

\* regex_match(date_str, m, r): [matched, m1, m2, m3]
DateRegexMatch(s) ==
    LET NoMatch == [matched |-> FALSE, m1 |-> <<>>, m2 |-> <<>>, m3 |-> <<>>]
        a1 == 4                                   \* after [A-Za-z]{3}
        a2 == SkipRun(s, a1, BlankClass)          \* at the comma
        b0 == a2 + 1
        b1 == SkipRun(s, b0, BlankClass)          \* at the day
        b2 == SkipRun(s, b1, DigitClass)          \* after the day
        c1 == SkipRun(s, b2, BlankClass)          \* at the month
        c2 == c1 + 3
        d1 == SkipRun(s, c2, BlankClass)          \* at the year
        d2 == d1 + 4
        e1 == SkipRun(s, d2, BlankClass)          \* at the time
        e2 == e1 + 8
        f1 == SkipRun(s, e2, BlankClass)          \* at the sign
        f2 == f1 + 5
    IN  IF /\ HasRun(s, 1, 3, AlphaClass)
           /\ a2 <= Len(s) /\ s[a2] = ","
           /\ b1 > b0
           /\ b2 - b1 \in {1, 2}
           /\ c1 > b2
           /\ HasRun(s, c1, 3, AlphaClass)
           /\ d1 > c2
           /\ HasRun(s, d1, 4, DigitClass)
           /\ e1 > d2
           /\ HasRun(s, e1, 2, DigitClass) /\ HasRun(s, e1 + 2, 1, {":"})
           /\ HasRun(s, e1 + 3, 2, DigitClass) /\ HasRun(s, e1 + 5, 1, {":"})
           /\ HasRun(s, e1 + 6, 2, DigitClass)
           /\ f1 > e2
           /\ HasRun(s, f1, 1, {"+", "-"})
           /\ HasRun(s, f1 + 1, 4, DigitClass)
        THEN [matched |-> TRUE, m1 |-> SubSeq(s, 1, a2),
              m2 |-> SubSeq(s, b1, d2 - 1), m3 |-> SubSeq(s, e1, f2 - 1)]
        ELSE NoMatch

\* std::string::substr(pos, n) and substr(pos), pos counted from 0
substr(s, pos, n) ==
    SubSeq(s, pos + 1, IF pos + n < Len(s) THEN pos + n ELSE Len(s))
substr_from(s, pos) == SubSeq(s, pos + 1, Len(s))

\* the text handed to the date reader:
\*   m[1] + " " + (m[2][1] == ' ' ? "0" : "") + m[2] + " " + m[3].substr(0, 12)
\*        + ":" + m[3].substr(12)
DateReaderText(m) ==
    m.m1 \o <<" ">> \o (IF m.m2[2] = " " THEN <<"0">> ELSE <<>>) \o m.m2 \o <<" ">>
      \o substr(m.m3, 0, 12) \o <<":">> \o substr_from(m.m3, 12)

\* ss >> ldt  under local_time_input_facet("%a %d %b %Y %H:%M:%S %ZP"): the reader
\* of the date library, which takes  Www, DD Mon YYYY HH:MM:SS +HH:MM  and fails on
\* other text
ReadLocalDateTime(t) ==
    LET Failed == [thrown |-> TRUE, value |-> not_a_date_time]
        mon == SubSeq(t, 9, 11)
    IN  IF /\ Len(t) = 32
           /\ SubSeq(t, 1, 3) \in Range(WeekdayNames)
           /\ t[4] = "," /\ t[5] = " "
           /\ HasRun(t, 6, 2, DigitClass) /\ t[8] = " "
           /\ mon \in Range(MonthNames) /\ t[12] = " "
           /\ HasRun(t, 13, 4, DigitClass) /\ t[17] = " "
           /\ HasRun(t, 18, 2, DigitClass) /\ t[20] = ":"
           /\ HasRun(t, 21, 2, DigitClass) /\ t[23] = ":"
           /\ HasRun(t, 24, 2, DigitClass) /\ t[26] = " "
           /\ t[27] \in {"+", "-"}
           /\ HasRun(t, 28, 2, DigitClass) /\ t[30] = ":"
           /\ HasRun(t, 31, 2, DigitClass)
        THEN LET z == Number(SubSeq(t, 28, 29)) * 60 + Number(SubSeq(t, 31, 32))
             IN  [thrown |-> FALSE,
                  value |-> local_date_time(
                      Number(SubSeq(t, 13, 16)),
                      CHOOSE k \in 1..12 : MonthNames[k] = mon,
                      Number(SubSeq(t, 6, 7)),
                      Number(SubSeq(t, 18, 19)), Number(SubSeq(t, 21, 22)),
                      Number(SubSeq(t, 24, 25)),
                      IF t[27] = "-" THEN 0 - z ELSE z)]
        ELSE Failed

\* local_date_time message::parse_date(const string& date_str): [thrown, value];
\* thrown is the rethrow as message_error("Bad date format.")
parse_date(date_str) ==
    CHOOSE r \in {IF m.matched THEN ReadLocalDateTime(DateReaderText(m))
                   ELSE [thrown |-> FALSE, value |-> not_a_date_time] :
                      m \in {DateRegexMatch(s) : s \in {date_str}}} : TRUE


(***************************************************************************)
(* The message object.  Its fields are the variables below; a message as a *)
(* value (a fresh message that header lines are parsed into) is the record *)
(* of the same fields.                                                     *)
(***************************************************************************)
VARIABLES
    \* fields of mime that message uses
    boundary, content_type, content, parts, version,
    \* fields of message
    sender, reply_address, recipients, cc_recipients, bcc_recipients,
    subject, date_time,
    \* the objects the caller handed to the last call, as the call left them:
    \* the stream and the name of attachment, the string of format (each empty
    \* when the last call was another), and the message_error the call threw
    att_strm, att_name, message_str, thrown,
    \* history: the last call with the caller's objects as they were before it,
    \* and the arguments of the attach calls so far
    op, attached,
    \* parse_address_list running: its locals, the number of characters it has
    \* read, the character it read last, and whether it has returned or thrown
    pal, pos, lastch, pdone,
    \* a pure function applied: its input and its result
    arg, res

mimeVars == <<boundary, content_type, content, parts, version>>
headerVars ==
    <<sender, reply_address, recipients, cc_recipients, bcc_recipients,
      subject, date_time>>
callerVars == <<att_strm, att_name, message_str, thrown>>
historyVars == <<op, attached>>
parserVars == <<pal, pos, lastch, pdone>>
pureVars == <<arg, res>>
vars == <<mimeVars, headerVars, callerVars, historyVars, parserVars, pureVars>>

NoError == "none"
NoAttachmentError == "No attachment at the given index."
NonMultipartError == "Non multipart message with boundary."
BadAddressError == "Bad address or group."
BadSenderError == "Bad sender."
BadDateError == "Bad date format."

Ok(v) == [error |-> NoError, value |-> v]
Failed(e) == [error |-> e, value |-> <<>>]

CRLF == <<"\r", "\n">>
COLON == <<":", " ">>
FROM_HEADER == <<"F","r","o","m">>
REPLY_TO_HEADER == <<"R","e","p","l","y","-","T","o">>
TO_HEADER == <<"T","o">>
CC_HEADER == <<"C","c">>
BCC_HEADER == <<"B","c","c">>
SUBJECT_HEADER == <<"S","u","b","j","e","c","t">>
DATE_HEADER == <<"D","a","t","e">>
MIME_VERSION_HEADER == <<"M","I","M","E","-","V","e","r","s","i","o","n">>

\* content_type_t(type, subtype)
content_type_t(t, st) == [type |-> t, subtype |-> st]

\* the message as a value
Msg ==
    [boundary |-> boundary, content_type |-> content_type, content |-> content,
     parts |-> parts, version |-> version,
     content_transfer_encoding |-> "NONE", content_disposition |-> "NONE",
     name |-> <<>>,
     sender |-> sender, reply_address |-> reply_address, recipients |-> recipients,
     cc_recipients |-> cc_recipients, bcc_recipients |-> bcc_recipients,
     subject |-> subject, date_time |-> date_time]

\* message::message(): mime() and the date and time of the call, at zone 00:00
NewMessage(now) ==
    [boundary |-> <<>>, content_type |-> content_type_t("NONE", <<>>),
     content |-> <<>>, parts |-> <<>>, version |-> <<"1", ".", "0">>,
     content_transfer_encoding |-> "NONE", content_disposition |-> "NONE",
     name |-> <<>>,
     sender |-> EmptyAddress, reply_address |-> EmptyAddress,
     recipients |-> EmptyMailboxes, cc_recipients |-> EmptyMailboxes,
     bcc_recipients |-> EmptyMailboxes, subject |-> <<>>, date_time |-> now]

(***************************************************************************)
(* The parts of mime that message calls: the generator of the boundary,    *)
(* the rendering of the content-type, transfer-encoding and disposition    *)
(* headers, of the content, and of a child part.                           *)
(***************************************************************************)
\* the tokens mime::make_boundary() may return
Boundaries == {<<"b", "1">>, <<"b", "2">>}

MediaTypeName(t) ==
    CASE t = "TEXT" -> <<"t","e","x","t">>
      [] t = "IMAGE" -> <<"i","m","a","g","e">>
      [] t = "APPLICATION" -> <<"a","p","p">>
      [] t = "MULTIPART" -> <<"m","u","l","t","i","p","a","r","t">>
      [] OTHER -> <<>>

\* mime::format_header(): one line for each of the three headers that is set
mime_format_header(m) ==
    (IF m.content_type.type = "NONE" THEN <<>>
     ELSE <<"C","o","n","t","e","n","t","-","T","y","p","e">> \o COLON
            \o MediaTypeName(m.content_type.type) \o <<"/">> \o m.content_type.subtype
            \o CRLF)
    \o (IF m.content_transfer_encoding = "NONE" THEN <<>>
        ELSE <<"C","T","E">> \o COLON \o <<"b","a","s","e","6","4">> \o CRLF)
    \o (IF m.content_disposition = "NONE" THEN <<>>
        ELSE <<"C","D">> \o COLON \o <<"a","t","t">> \o <<";", " ">> \o m.name \o CRLF)

\* the base64 codec: every byte becomes two characters
RECURSIVE base64_encode(_)
base64_encode(s) ==
    IF s = <<>> THEN <<>> ELSE <<"=", Head(s)>> \o base64_encode(Tail(s))

\* mime::format_content(dot_escape)
format_content(m) ==
    IF m.content_transfer_encoding = "BASE_64" THEN base64_encode(m.content)
    ELSE m.content

\* mime::format of a child part
mime_format(m) == mime_format_header(m) \o CRLF \o format_content(m)

(***************************************************************************)
(* format_header and format.                                               *)
(***************************************************************************)
\* a faulty structural test: format_header never refuses
NonMultipartWithBoundary_M(m) == FALSE

\* the structural test of format_header:
\*   !_boundary.empty() && _content_type.type != media_type_t::MULTIPART
NonMultipartWithBoundary(m) ==
    m.boundary # <<>> /\ m.content_type.type # "MULTIPART"

\* the test that decides whether format_header emits Reply-To
ReplyToEmitted(m) == m.reply_address.name # <<>>

\* a faulty test: the MIME version is written for a message without parts too
MimeVersionEmitted_M(m) == TRUE

\* if (!_parts.empty())
MimeVersionEmitted(m) == m.parts # <<>>

\* string message::format_header() const
format_header(m) ==
    LET from == format_address(m.sender.name, m.sender.address)
        reply == format_address(m.reply_address.name, m.reply_address.address)
        to == format_mailbox(m.recipients)
        cc == format_mailbox(m.cc_recipients)
        bcc == format_mailbox(m.bcc_recipients)
    IN  IF NonMultipartWithBoundary(m) THEN Failed(NonMultipartError)
        ELSE IF \/ from.thrown
                \/ ReplyToEmitted(m) /\ reply.thrown
                \/ to.thrown
                \/ ~mailboxes_empty(m.cc_recipients) /\ cc.thrown
                \/ ~mailboxes_empty(m.bcc_recipients) /\ bcc.thrown
        THEN Failed(BadAddressError)
        ELSE Ok(
            FROM_HEADER \o COLON \o from.value \o CRLF
            \o (IF ReplyToEmitted(m)
                THEN REPLY_TO_HEADER \o COLON \o reply.value \o CRLF ELSE <<>>)
            \o TO_HEADER \o COLON \o to.value \o CRLF
            \o (IF mailboxes_empty(m.cc_recipients) THEN <<>>
                ELSE CC_HEADER \o COLON \o cc.value \o CRLF)
            \o (IF mailboxes_empty(m.bcc_recipients) THEN <<>>
                ELSE BCC_HEADER \o COLON \o bcc.value \o CRLF)
            \o (IF m.date_time.is_not_a_date_time THEN <<>>
                ELSE DATE_HEADER \o COLON \o format_date(m.date_time) \o CRLF)
            \o (IF MimeVersionEmitted(m)
                THEN MIME_VERSION_HEADER \o COLON \o m.version \o CRLF ELSE <<>>)
            \o mime_format_header(m)
            \o SUBJECT_HEADER \o COLON \o m.subject \o CRLF \o CRLF)

\* the loop of format over _parts, from the i-th on
RECURSIVE FormatParts(_, _)
FormatParts(m, i) ==
    IF i > Len(m.parts) THEN <<>>
    ELSE <<"-", "-">> \o m.boundary \o CRLF \o mime_format(m.parts[i]) \o CRLF
           \o FormatParts(m, i + 1)

\* void message::format(string& message_str, bool dot_escape) const:
\* the error thrown, if any, and message_str after the call
format(m, str) ==
    LET header == format_header(m)
        body == format_content(m)
    IN  IF header.error # NoError THEN [error |-> header.error, value |-> str]
        ELSE Ok(str \o header.value \o body
                \o (IF m.parts # <<>>
                    THEN (IF body # <<>> THEN CRLF ELSE <<>>)
                         \o FormatParts(m, 1)
                         \o <<"-", "-">> \o m.boundary \o <<"-", "-">> \o CRLF
                    ELSE <<>>))


(***************************************************************************)
(* parse_header_line.                                                      *)
(***************************************************************************)
\* the lower-case letter of an upper-case one
ToLower(ch) ==
    IF ch \in Range(UpperChars)
    THEN LowerChars[CHOOSE i \in 1..26 : UpperChars[i] = ch]
    ELSE ch
\* boost::iequals
iequals(a, b) ==
    Len(a) = Len(b) /\ \A i \in 1..Len(a) : ToLower(a[i]) = ToLower(b[i])

\* the index of the first character of s that is ch, 0 if there is none
RECURSIVE Find(_, _, _)
Find(s, ch, i) ==
    IF i > Len(s) THEN 0 ELSE IF s[i] = ch THEN i ELSE Find(s, ch, i + 1)

\* mime::parse_header_name_value(header_line, header_name, header_value): the
\* name is the text before the first colon, the value the text after it
parse_header_name_value(header_line) ==
    LET c == Find(header_line, COLON_CHAR, 1)
    IN  IF c = 0 THEN [name |-> header_line, value |-> <<>>]
        ELSE [name |-> trim(SubSeq(header_line, 1, c - 1)),
              value |-> SubSeq(header_line, c + 1, Len(header_line))]

\* a faulty From branch: the last address is kept, not the first
FromBranch_M(m, mbx) ==
    IF mbx.thrown THEN [error |-> BadAddressError, msg |-> m]
    ELSE IF mbx.value.addresses = <<>> THEN [error |-> BadSenderError, msg |-> m]
    ELSE [error |-> NoError,
          msg |-> [m EXCEPT !.sender = mbx.value.addresses[Len(mbx.value.addresses)]]]

\* the From branch of parse_header_line, mbx being parse_address_list of the value
FromBranch(m, mbx) ==
    IF mbx.thrown THEN [error |-> BadAddressError, msg |-> m]
    ELSE IF mbx.value.addresses = <<>> THEN [error |-> BadSenderError, msg |-> m]
    ELSE [error |-> NoError, msg |-> [m EXCEPT !.sender = mbx.value.addresses[1]]]

\* a faulty To branch: the mailboxes parsed are added to those already there
ToBranch_M(m, mbx) ==
    IF mbx.thrown THEN [error |-> BadAddressError, msg |-> m]
    ELSE [error |-> NoError,
          msg |-> [m EXCEPT !.recipients =
                       mailboxes(@.addresses \o mbx.value.addresses,
                                 @.groups \o mbx.value.groups)]]

\* the To branch:  _recipients = parse_address_list(header_value)
ToBranch(m, mbx) ==
    IF mbx.thrown THEN [error |-> BadAddressError, msg |-> m]
    ELSE [error |-> NoError, msg |-> [m EXCEPT !.recipients = mbx.value]]

\* a faulty Date branch: the date and time is cleared before the text is read
DateBranch_M(m, dt) ==
    IF dt.thrown
    THEN [error |-> BadDateError, msg |-> [m EXCEPT !.date_time = not_a_date_time]]
    ELSE [error |-> NoError, msg |-> [m EXCEPT !.date_time = dt.value]]

\* the Date branch:  *_date_time = parse_date(trim_copy(header_value))
DateBranch(m, dt) ==
    IF dt.thrown THEN [error |-> BadDateError, msg |-> m]
    ELSE [error |-> NoError, msg |-> [m EXCEPT !.date_time = dt.value]]

\* void message::parse_header_line(const std::string& header_line) on the message
\* value m: the error thrown, if any, and the message after the call
parse_header_line(m, header_line) ==
    LET Done(v) == [error |-> NoError, msg |-> v]
        Fail(e) == [error |-> e, msg |-> m]
        \* the branch taken on the header name
        Branch(nv, mbx, dt) ==
            IF iequals(nv.name, FROM_HEADER) THEN FromBranch(m, mbx)
            ELSE IF iequals(nv.name, REPLY_TO_HEADER)
            THEN IF mbx.thrown THEN Fail(BadAddressError)
                 ELSE IF mbx.value.addresses # <<>>
                      THEN Done([m EXCEPT !.reply_address = mbx.value.addresses[1]])
                      ELSE Done(m)
            ELSE IF iequals(nv.name, TO_HEADER) THEN ToBranch(m, mbx)
            ELSE IF iequals(nv.name, CC_HEADER)
            THEN IF mbx.thrown THEN Fail(BadAddressError)
                 ELSE Done([m EXCEPT !.cc_recipients = mbx.value])
            ELSE IF iequals(nv.name, SUBJECT_HEADER)
            THEN Done([m EXCEPT !.subject = trim(nv.value)])
            ELSE IF iequals(nv.name, DATE_HEADER) THEN DateBranch(m, dt)
            ELSE IF iequals(nv.name, MIME_VERSION_HEADER)
            THEN Done([m EXCEPT !.version = trim(nv.value)])
            ELSE Done(m)
    IN  CHOOSE r \in
            {Branch(nv, parse_address_list(nv.value), parse_date(trim(nv.value))) :
                nv \in {parse_header_name_value(header_line)}} : TRUE

\* the index of the first CRLF of text at or after i, 0 if there is none
FirstBreak(text, i) ==
    LET B == {j \in i..(Len(text) - 1) : text[j] = "\r" /\ text[j + 1] = "\n"}
    IN  IF B = {} THEN 0 ELSE CHOOSE j \in B : \A k \in B : j <= k

\* the lines of a header block, from the one that begins at i on: the texts that
\* CRLF ends, up to the empty line
RECURSIVE HeaderLines(_, _)
HeaderLines(text, i) ==
    CHOOSE r \in {IF e = 0 \/ e = i THEN <<>>
                   ELSE <<SubSeq(text, i, e - 1)>> \o HeaderLines(text, e + 2) :
                      e \in {FirstBreak(text, i)}} : TRUE

\* parse_header_line on each of lines in turn, from the i-th on, until one throws
RECURSIVE ParseHeaderLines(_, _, _)
ParseHeaderLines(m, lines, i) ==
    IF i > Len(lines) THEN [error |-> NoError, msg |-> m]
    ELSE CHOOSE v \in {IF r.error # NoError THEN r
                        ELSE ParseHeaderLines(r.msg, lines, i + 1) :
                           r \in {parse_header_line(m, lines[i])}} : TRUE


(***************************************************************************)
(* attach, attachments_size, attachment.                                   *)
(***************************************************************************)
\* a faulty attach: the part is not marked as an attachment
AttachedPart_M(att_content, name, type, subtype) ==
    [content_type |-> content_type_t(type, subtype),
     content_transfer_encoding |-> "BASE_64",
     content_disposition |-> "INLINE",
     name |-> name, content |-> att_content]

\* the mime object that attach builds and appends
AttachedPart(att_content, name, type, subtype) ==
    [content_type |-> content_type_t(type, subtype),
     content_transfer_encoding |-> "BASE_64",
     content_disposition |-> "ATTACHMENT",
     name |-> name, content |-> att_content]

\* size_t message::attachments_size() const
attachments_size(ps) ==
    Cardinality({i \in 1..Len(ps) : ps[i].content_disposition = "ATTACHMENT"})

\* a faulty loop: no is compared with index before it is incremented, so the
\* attachment after the one asked for is written
RECURSIVE AttachmentLoop_M(_, _, _, _)
AttachmentLoop_M(ps, i, no, index) ==
    IF i > Len(ps) THEN [no |-> no, found |-> 0]
    ELSE IF ps[i].content_disposition = "ATTACHMENT"
         THEN IF no = index THEN [no |-> no + 1, found |-> i]
              ELSE AttachmentLoop_M(ps, i + 1, no + 1, index)
    ELSE AttachmentLoop_M(ps, i + 1, no, index)

\* the loop of attachment over _parts from the i-th on, no attachments counted so
\* far: the value of no after the loop and the part written, 0 if none was
RECURSIVE AttachmentLoop(_, _, _, _)
AttachmentLoop(ps, i, no, index) ==
    IF i > Len(ps) THEN [no |-> no, found |-> 0]
    ELSE IF ps[i].content_disposition = "ATTACHMENT"
         THEN IF no + 1 = index THEN [no |-> no + 1, found |-> i]
              ELSE AttachmentLoop(ps, i + 1, no + 1, index)
    ELSE AttachmentLoop(ps, i + 1, no, index)

\* the test after the loop of attachment that throws
AttachmentThrows(no, ps) == no > Len(ps)

\* a faulty attachment: index 0 is not refused
attachment_M(ps, index, strm, name) ==
    LET r == AttachmentLoop(ps, 1, 0, index)
        out == IF r.found = 0 THEN strm ELSE strm \o ps[r.found].content
        nm == IF r.found = 0 THEN name ELSE ps[r.found].name
    IN  [error |-> IF AttachmentThrows(r.no, ps) THEN NoAttachmentError
                   ELSE NoError,
         strm |-> out, name |-> nm]

\* void message::attachment(size_t index, ostream& att_strm, string& att_name):
\* the error thrown, if any, and the stream and the name after the call
attachment(ps, index, strm, name) ==
    IF index = 0 THEN [error |-> NoAttachmentError, strm |-> strm, name |-> name]
    ELSE LET r == AttachmentLoop(ps, 1, 0, index)
             out == IF r.found = 0 THEN strm ELSE strm \o ps[r.found].content
             nm == IF r.found = 0 THEN name ELSE ps[r.found].name
         IN  [error |-> IF AttachmentThrows(r.no, ps) THEN NoAttachmentError
                        ELSE NoError,
              strm |-> out, name |-> nm]

(***************************************************************************)
(* The calls on a message, as actions.                                     *)
(***************************************************************************)
\* what the callers of the model pass
AttContents == {<<"x">>, <<"y", "z">>}
AttNames == {<<"f">>, <<"g">>}
CallerTexts == {<<>>, <<"o">>}
ContentTypes == {content_type_t("TEXT", <<"p">>), content_type_t("MULTIPART", <<"m">>)}
Contents == {<<>>, <<"h", "i">>}
NowDates == {local_date_time(2014, 7, 17, 10, 31, 49, 0)}

NoOp == [name |-> "none", index |-> 0, before |-> <<>>, name_before |-> <<>>]

\* a faulty attach: a boundary is made at every call
AttachBoundary_M(old, b) == b

\* the boundary after attach, b being what make_boundary() would return:
\*   if (_boundary.empty()) _boundary = make_boundary();
AttachBoundary(old, b) == IF old = <<>> THEN b ELSE old

\* a call that is handed no stream, name or string of the caller
NoCallerObjects == att_strm' = <<>> /\ att_name' = <<>> /\ message_str' = <<>>

\* void message::attach(const istream& att_strm, const string& att_name,
\*                      media_type_t type, const string& subtype)
Attach(att_content, name, type, subtype) ==
    /\ Len(parts) < MaxParts
    /\ \E b \in Boundaries : boundary' = AttachBoundary(boundary, b)
    /\ content_type' = content_type_t("MULTIPART", <<"m","i","x","e","d">>)
    /\ parts' = Append(parts, AttachedPart(att_content, name, type, subtype))
    /\ thrown' = NoError
    /\ op' = [NoOp EXCEPT !.name = "attach"]
    /\ attached' = Append(attached, [content |-> att_content, name |-> name])
    /\ NoCallerObjects
    /\ UNCHANGED <<content, version, headerVars, parserVars, pureVars>>

\* a call of attachment with a stream holding strm0 and a name holding name0
Attachment(index, strm0, name0) ==
    LET r == attachment(parts, index, strm0, name0)
    IN  /\ att_strm' = r.strm
        /\ att_name' = r.name
        /\ message_str' = <<>>
        /\ thrown' = r.error
        /\ op' = [name |-> "attachment", index |-> index, before |-> strm0,
                  name_before |-> name0]
        /\ UNCHANGED <<mimeVars, headerVars, attached, parserVars, pureVars>>

\* a call of format with a string holding str0
Format(str0) ==
    LET r == format(Msg, str0)
    IN  /\ message_str' = r.value
        /\ att_strm' = <<>> /\ att_name' = <<>>
        /\ thrown' = r.error
        /\ op' = [NoOp EXCEPT !.name = "format", !.before = str0]
        /\ UNCHANGED <<mimeVars, headerVars, attached, parserVars, pureVars>>

\* mime::content_type(const content_type_t&)
SetContentType(ct) ==
    /\ content_type' = ct
    /\ thrown' = NoError
    /\ op' = [NoOp EXCEPT !.name = "content_type"]
    /\ NoCallerObjects
    /\ UNCHANGED <<boundary, content, parts, version, headerVars, attached,
                   parserVars, pureVars>>

\* mime::content(const string&)
SetContent(c) ==
    /\ content' = c
    /\ thrown' = NoError
    /\ op' = [NoOp EXCEPT !.name = "content"]
    /\ NoCallerObjects
    /\ UNCHANGED <<boundary, content_type, parts, version, headerVars, attached,
                   parserVars, pureVars>>

\* the variables a specification does not use
IdleCaller ==
    /\ att_strm = <<>> /\ att_name = <<>> /\ message_str = <<>>
    /\ thrown = NoError /\ op = NoOp /\ attached = <<>>
IdleParser == pal = ParserInit /\ pos = 0 /\ lastch = "" /\ pdone = FALSE
IdlePure == arg = <<>> /\ res = <<>>

\* the message after its constructor
InitMessage ==
    \E now \in NowDates :
        LET m == NewMessage(now)
        IN  /\ boundary = m.boundary /\ content_type = m.content_type
            /\ content = m.content /\ parts = m.parts /\ version = m.version
            /\ sender = m.sender /\ reply_address = m.reply_address
            /\ recipients = m.recipients /\ cc_recipients = m.cc_recipients
            /\ bcc_recipients = m.bcc_recipients /\ subject = m.subject
            /\ date_time = m.date_time

(***************************************************************************)
(* Spec: a message that gets attachments, whose attachments are read back  *)
(* and which is formatted.                                                 *)
(***************************************************************************)
Init == InitMessage /\ IdleCaller /\ IdleParser /\ IdlePure

Next ==
    \/ \E c \in AttContents, n \in AttNames : Attach(c, n, "APPLICATION", <<"p">>)
    \/ \E i \in 0..(MaxParts + 2), s \in CallerTexts : Attachment(i, s, <<"n">>)
    \/ \E s \in CallerTexts : Format(s)
    \/ \E ct \in ContentTypes : SetContentType(ct)
    \/ \E c \in Contents : SetContent(c)

Spec == Init /\ [][Next]_vars


(***************************************************************************)
(* SpecParse: parse_address_list reads an address list of at most MaxLen   *)
(* characters, one character a step.  The list is any text over            *)
(* ParseChars: one character of every class the parser tells apart outside *)
(* quoted names ("[" stands for the characters no unquoted state takes).   *)
(***************************************************************************)
ParseChars == {"a", "@", " ", ",", ":", ";", "<", ">", "(", ")", "["}

\* one turn of the for loop: the character ch, the last of the list or not
ReadChar(ch, last) ==
    /\ ~pdone
    /\ pos < MaxLen
    /\ pal' = ParseStep(pal, ch, last)
    /\ pos' = pos + 1
    /\ lastch' = ch
    /\ pdone' = (last \/ pal'.thrown)
    /\ UNCHANGED <<mimeVars, headerVars, callerVars, historyVars, pureVars>>

\* the empty address list: the loop is not entered
ReturnEmpty ==
    /\ ~pdone
    /\ pos = 0
    /\ pdone' = TRUE
    /\ UNCHANGED <<pal, pos, lastch>>
    /\ UNCHANGED <<mimeVars, headerVars, callerVars, historyVars, pureVars>>

NextParse ==
    \/ \E ch \in ParseChars, last \in BOOLEAN : ReadChar(ch, last)
    \/ ReturnEmpty

SpecParse == Init /\ [][NextParse]_vars


(***************************************************************************)
(* SpecAttach: a message that only gets attachments, reads them back and   *)
(* is formatted; nothing else sets its content type.                       *)
(***************************************************************************)
NextAttach ==
    \/ \E c \in AttContents, n \in AttNames : Attach(c, n, "APPLICATION", <<"p">>)
    \/ \E i \in 0..(MaxParts + 2), s \in CallerTexts : Attachment(i, s, <<"n">>)
    \/ \E s \in CallerTexts : Format(s)

SpecAttach == Init /\ [][NextAttach]_vars

(***************************************************************************)
(* Claims on attachments and on format (Spec, SpecAttach).                 *)
(***************************************************************************)
\* C1: attachment(index, out, name) with index greater than attachments_size()
\* fails with the error "No attachment at the given index." and writes nothing to
\* the stream.
C1_BeyondLastFails ==
    (op.name = "attachment" /\ op.index > attachments_size(parts))
        => (thrown = NoAttachmentError /\ att_strm = op.before)

\* C2: after any sequence of attach calls, attachment(k, out, name) with
\* 1 <= k <= attachments_size() throws nothing, appends to out exactly the content
\* given to the k-th attach call and sets name to the name given to that call.
C2_AttachmentReturnsKth ==
    (op.name = "attachment" /\ 1 <= op.index /\ op.index <= attachments_size(parts))
        => /\ thrown = NoError
           /\ op.index <= Len(attached)
           /\ att_strm = op.before \o attached[op.index].content
           /\ att_name = attached[op.index].name

\* a call attachment(2, ...) on a message with two attachments of different
\* contents and names, with a stream that already held text
C2_Witness ==
    /\ op.name = "attachment" /\ op.index = 2 /\ op.before # <<>>
    /\ Len(attached) = 2
    /\ attached[1].content # attached[2].content
    /\ attached[1].name # attached[2].name
    /\ att_name = attached[2].name

\* C3: attachment(0, out, name) fails in every state of the message and leaves
\* the stream, the name and the parts of the message as they were.
C3_IndexZeroFails ==
    [][(op'.name = "attachment" /\ op'.index = 0)
         => /\ thrown' = NoAttachmentError
            /\ att_strm' = op'.before
            /\ att_name' = op'.name_before
            /\ parts' = parts]_vars

\* a call attachment(0, ...) on a message that has an attachment
C3_Witness ==
    /\ op.name = "attachment" /\ op.index = 0 /\ op.before # <<>>
    /\ Len(parts) >= 1
    /\ thrown = NoAttachmentError

\* C4: attachments_size() is the number of attach calls made on the message since
\* its construction (so each attach call raises it by one).
C4_SizeCountsAttachCalls == attachments_size(parts) = Len(attached)

\* MaxParts attach calls have been made
C4_Witness == Len(attached) = MaxParts /\ attachments_size(parts) = MaxParts

\* C5: in every state reached through attach, once attach has been called the
\* boundary is non-empty and the content type is multipart/mixed, a non-empty
\* boundary comes with a multipart content type, format_header does not fail, and
\* no step changes a boundary that is set.
C5_BoundaryAndMultipart ==
    /\ [](/\ (attached # <<>>)
               => /\ boundary # <<>>
                  /\ content_type = content_type_t("MULTIPART", <<"m","i","x","e","d">>)
          /\ (boundary # <<>>) => content_type.type = "MULTIPART"
          /\ format_header(Msg).error = NoError
          /\ (op.name = "format") => thrown = NoError)
    /\ [][(boundary # <<>>) => boundary' = boundary]_vars

\* a formatted message with MaxParts attachments
C5_Witness ==
    /\ op.name = "format" /\ thrown = NoError
    /\ Len(attached) = MaxParts /\ boundary # <<>>

\* C6: format on a message whose boundary is non-empty and whose content type is
\* not multipart fails, and the caller's string is as it was before the call.
C6_FormatFailsBeforeOutput ==
    (op.name = "format" /\ boundary # <<>> /\ content_type.type # "MULTIPART")
        => (thrown = NonMultipartError /\ message_str = op.before)

\* such a call, with a string that already held text
C6_Witness ==
    /\ op.name = "format" /\ boundary # <<>> /\ content_type.type # "MULTIPART"
    /\ op.before # <<>> /\ thrown = NonMultipartError



(***************************************************************************)
(* Claims on parse_address_list (SpecParse).                               *)
(***************************************************************************)
\* parse_address_list has returned its mailboxes without throwing
ParseSucceeded == pdone /\ ~pal.thrown

\* C9: group exclusivity: when parse_address_list succeeds, no mailbox read
\* between a group's colon and its end is in the top-level address list, and every
\* member of every group was read between a group's colon and its end.
C9_GroupExclusivity ==
    ParseSucceeded =>
        /\ \A i \in 1..Len(pal.mail_list) : ~pal.mail_list[i].in_group
        /\ \A g \in 1..Len(pal.mail_group_list) :
               \A j \in 1..Len(pal.mail_group_list[g].members) :
                   pal.mail_group_list[g].members[j].in_group

\* a list with a mailbox before a group and a member in the group has been parsed
C9_Witness ==
    /\ ParseSucceeded
    /\ Len(pal.mail_list) > 0
    /\ \E g \in 1..Len(pal.mail_group_list) : Len(pal.mail_group_list[g].members) > 0

\* C10: parse_address_list returns without an error only when the last character
\* leaves the machine in BEGIN, NAMEADDRGRP, ADDR, ADDRBREND or GROUPEND; an
\* address list ending in any other state fails.
C10_EndOfInputChecked ==
    (ParseSucceeded /\ pos > 0)
        => pal.state \in {"BEGIN", "NAMEADDRGRP", "ADDR", "ADDRBREND", "GROUPEND"}

(***************************************************************************)
(* SpecAddr: format_address applied to a name and an address, and          *)
(* parse_address_list applied to what it returns.  The inputs are the      *)
(* texts of at most MaxText characters over NameChars and AddressChars.    *)
(***************************************************************************)
NameChars == {"a", " ", ",", "\"", "@"}
AddressChars == {"a", "@", " ", "<"}

\* the texts over chars of length n, and of length at most n
RECURSIVE TextsOfLen(_, _)
TextsOfLen(chars, n) ==
    IF n = 0 THEN {<<>>}
    ELSE {Append(t, c) : t \in TextsOfLen(chars, n - 1), c \in chars}
TextsUpTo(chars, n) == UNION {TextsOfLen(chars, k) : k \in 0..n}

NotApplied == [applied |-> FALSE, formatted |-> Returned(<<>>),
               parsed |-> [thrown |-> FALSE, value |-> EmptyMailboxes]]

InitAddr ==
    /\ InitMessage /\ IdleCaller /\ IdleParser
    /\ arg \in [name : TextsUpTo(NameChars, MaxText),
                address : TextsUpTo(AddressChars, MaxText)]
    /\ res = NotApplied

\* format_address(arg.name, arg.address), and parse_address_list of its value
FormatThenParse ==
    /\ ~res.applied
    /\ LET f == format_address(arg.name, arg.address)
       IN  res' = [applied |-> TRUE, formatted |-> f,
                   parsed |-> IF f.thrown THEN NotApplied.parsed
                              ELSE parse_address_list(f.value)]
    /\ UNCHANGED <<arg, mimeVars, headerVars, callerVars, historyVars, parserVars>>

NextAddr == FormatThenParse

SpecAddr == InitAddr /\ [][NextAddr]_vars

\* C8: format_address fails when the name is outside the quotable-text class or
\* the non-empty address is outside the address class, and succeeds otherwise; for
\* every non-empty pair it accepts, parse_address_list of its output succeeds and
\* returns exactly one top-level address, equal to (name, address), and no group.
C8_FormatAddressReparses ==
    res.applied =>
        /\ res.formatted.thrown
             <=> \/ ~MatchesAll(arg.name, QTEXT_REGEX)
                 \/ arg.address # <<>> /\ ~MatchesAll(arg.address, DTEXT_REGEX)
        /\ (~res.formatted.thrown /\ (arg.name # <<>> \/ arg.address # <<>>))
             => /\ ~res.parsed.thrown
                /\ res.parsed.value
                     = mailboxes(<<mail_address(arg.name, arg.address)>>, <<>>)


(***************************************************************************)
(* SpecRound: a message built with the setters sender, add_recipient,      *)
(* subject and date_time, then formatted, the lines of its header block    *)
(* fed to parse_header_line of a message constructed afterwards.           *)
(***************************************************************************)
RoundAddresses ==
    {mail_address(<<>>, <<"a", "@", "b">>),
     mail_address(<<"a", "l">>, <<"c", "@", "d">>)}
RoundGroups ==
    {mail_group(<<"g", "r">>, <<mail_address(<<>>, <<"e", "@", "f">>)>>),
     mail_group(<<"h", "s">>, << >>)}
RoundSubjects == {<<"h", "i">>}
RoundDates == {local_date_time(2014, 7, 7, 23, 59, 5, 120)}
\* the date and time at which the message parsed into is constructed
LaterNow == local_date_time(2014, 7, 18, 0, 0, 1, 0)

NotRound == [format_error |-> NoError, parse_error |-> NoError,
             msg |-> NewMessage(LaterNow)]

\* the setters leave the result of an earlier round trip behind
SetterFrame ==
    /\ thrown' = NoError
    /\ NoCallerObjects
    /\ res' = NotRound
    /\ UNCHANGED <<mimeVars, attached, parserVars, arg>>

\* void message::sender(const mail_address& mail)
SetSender(mail) ==
    /\ sender' = mail
    /\ op' = [NoOp EXCEPT !.name = "sender"]
    /\ SetterFrame
    /\ UNCHANGED <<reply_address, recipients, cc_recipients, bcc_recipients,
                   subject, date_time>>

\* void message::add_recipient(const mail_address& mail)
AddRecipient(mail) ==
    /\ Len(recipients.addresses) < MaxRcpt
    /\ recipients' = [recipients EXCEPT !.addresses = Append(@, mail)]
    /\ op' = [NoOp EXCEPT !.name = "add_recipient"]
    /\ SetterFrame
    /\ UNCHANGED <<sender, reply_address, cc_recipients, bcc_recipients,
                   subject, date_time>>

\* void message::add_recipient(const mail_group& group)
AddRecipientGroup(group) ==
    /\ Len(recipients.groups) < MaxRcpt
    /\ recipients' = [recipients EXCEPT !.groups = Append(@, group)]
    /\ op' = [NoOp EXCEPT !.name = "add_recipient"]
    /\ SetterFrame
    /\ UNCHANGED <<sender, reply_address, cc_recipients, bcc_recipients,
                   subject, date_time>>

\* void message::subject(const string& mail_subject)
SetSubject(mail_subject) ==
    /\ subject' = mail_subject
    /\ op' = [NoOp EXCEPT !.name = "subject"]
    /\ SetterFrame
    /\ UNCHANGED <<sender, reply_address, recipients, cc_recipients, bcc_recipients,
                   date_time>>

\* void message::date_time(const boost::local_time::local_date_time& mail_dt)
SetDateTime(mail_dt) ==
    /\ date_time' = mail_dt
    /\ op' = [NoOp EXCEPT !.name = "date_time"]
    /\ SetterFrame
    /\ UNCHANGED <<sender, reply_address, recipients, cc_recipients, bcc_recipients,
                   subject>>

\* format(m), then parse_header_line of every line of the header block on a
\* message constructed at LaterNow
RoundTripResult(m) ==
    CHOOSE v \in
        {IF f.error # NoError
         THEN [NotRound EXCEPT !.format_error = f.error]
         ELSE CHOOSE w \in
                {[format_error |-> NoError, parse_error |-> r.error, msg |-> r.msg] :
                    r \in {ParseHeaderLines(NewMessage(LaterNow), lines, 1) :
                              lines \in {HeaderLines(f.value, 1)}}} : TRUE :
            f \in {format(m, <<>>)}} : TRUE

RoundTrip ==
    /\ op.name # "round_trip"
    /\ res' = RoundTripResult(Msg)
    /\ op' = [NoOp EXCEPT !.name = "round_trip"]
    /\ thrown' = NoError
    /\ NoCallerObjects
    /\ UNCHANGED <<mimeVars, headerVars, attached, parserVars, arg>>

InitRound == InitMessage /\ IdleCaller /\ IdleParser /\ arg = <<>> /\ res = NotRound

NextRound ==
    \/ \E a \in RoundAddresses : SetSender(a)
    \/ \E a \in RoundAddresses : AddRecipient(a)
    \/ \E g \in RoundGroups : AddRecipientGroup(g)
    \/ \E t \in RoundSubjects : SetSubject(t)
    \/ \E d \in RoundDates : SetDateTime(d)
    \/ RoundTrip

SpecRound == InitRound /\ [][NextRound]_vars

\* C7: for every message built with the setters (its sender set), if format
\* succeeds then parse_header_line accepts every line of the header block and the
\* message parsed has the same sender, recipients, subject and date and time.
C7_RoundTrip ==
    (op.name = "round_trip" /\ sender # EmptyAddress /\ res.format_error = NoError)
        => /\ res.parse_error = NoError
           /\ res.msg.sender = sender
           /\ res.msg.recipients = recipients
           /\ res.msg.subject = subject
           /\ res.msg.date_time = date_time


(***************************************************************************)
(* SpecDate: parse_date applied to a text.  The texts are put together     *)
(* from the pieces of a Date header value, each piece as the pattern wants *)
(* it or not.                                                              *)
(***************************************************************************)
DateTexts ==
    LET DateWeekdays == {<<"T","h","u">>, <<"T","h">>}
        DateCommas == {<<",">>, <<>>}
        DateBlanks == {<<" ">>, <<>>}
        DateDays == {<<"7">>, <<"1","7">>}
        DateMonths == {<<"J","u","l">>, <<"X","x","x">>}
        DateYears == {<<"2","0","1","4">>, <<"2","1","4">>}
        DateTimes == {<<"1","0",":","3","1",":","4","9">>, <<"1","0",":","3","1">>}
        DateZones == {<<"+","0","2","0","0">>, <<"0","2","0","0">>}
        DateComments == {<<>>, <<" ","(","C","E","T",")">>}
        DateDayEnds == {<<" ">>, <<"\t">>}
    IN  {wd \o co \o bl \o d \o de \o mo \o <<" ">> \o y \o <<" ">> \o t
            \o <<" ">> \o z \o c :
            wd \in DateWeekdays, co \in DateCommas, bl \in DateBlanks, d \in DateDays,
            mo \in DateMonths, y \in DateYears, t \in DateTimes, z \in DateZones,
            c \in DateComments, de \in DateDayEnds}

NotParsed == [applied |-> FALSE, thrown |-> FALSE, value |-> not_a_date_time]

InitDate ==
    /\ InitMessage /\ IdleCaller /\ IdleParser
    /\ arg \in DateTexts
    /\ res = NotParsed

\* parse_date(arg)
ParseDate ==
    /\ ~res.applied
    /\ \E r \in {parse_date(arg)} :
           res' = [applied |-> TRUE, thrown |-> r.thrown, value |-> r.value]
    /\ UNCHANGED <<arg, mimeVars, headerVars, callerVars, historyVars, parserVars>>

NextDate == ParseDate

SpecDate == InitDate /\ [][NextDate]_vars

\* C11: parse_date fails with the date-format error on every text that does not
\* match the date pattern; it returns no value for such a text.
C11_NonMatchingDateFails ==
    (res.applied /\ ~DateRegexMatch(arg).matched) => res.thrown


(***************************************************************************)
(* SpecHeader: header lines fed one after the other to parse_header_line   *)
(* of a message.  A line is a name, a colon and a value; the names are the *)
(* message-level ones; the values are address lists (empty, one address,   *)
(* two addresses, a group alone, text outside the grammar), dates (well    *)
(* formed, and matching the pattern with a month that does not exist) and  *)
(* plain text.                                                             *)
(***************************************************************************)
HeaderLineSet ==
    LET one == <<"a","@","b">>
        other == <<"c","@","d">>
        two == <<"c","@","d",","," ","a","@","b">>
        grp == <<"g",":"," ","<","a","@","b",">",";">>
        bad == <<"<","a">>
        Lines(name, values) == {name \o COLON \o v : v \in values}
    IN  Lines(FROM_HEADER, {<<>>, two, grp, bad})
        \cup Lines(REPLY_TO_HEADER, {other, bad})
        \cup Lines(TO_HEADER, {one, two, bad})
        \cup Lines(CC_HEADER, {one, grp, bad})
        \cup Lines(BCC_HEADER, {one})
        \cup Lines(SUBJECT_HEADER, {<<"h","i"," ">>})
        \cup Lines(DATE_HEADER,
                   {<<"M","o","n",","," ","7"," ","J","u","l"," ","2","0","1","4"," ",
                      "2","3",":","5","9",":","0","5"," ","+","0","2","0","0">>,
                    <<"M","o","n",","," ","7"," ","X","x","x"," ","2","0","1","4"," ",
                      "2","3",":","5","9",":","0","5"," ","+","0","2","0","0">>})
        \cup Lines(MIME_VERSION_HEADER, {<<"1",".","1">>})

\* a call of parse_header_line(header_line) on the message
ParseHeaderLine(header_line) ==
    /\ \E r \in {parse_header_line(Msg, header_line)} :
           /\ sender' = r.msg.sender
           /\ reply_address' = r.msg.reply_address
           /\ recipients' = r.msg.recipients
           /\ cc_recipients' = r.msg.cc_recipients
           /\ bcc_recipients' = r.msg.bcc_recipients
           /\ subject' = r.msg.subject
           /\ date_time' = r.msg.date_time
           /\ version' = r.msg.version
           /\ thrown' = r.error
    /\ op' = [NoOp EXCEPT !.name = "parse_header_line", !.before = header_line]
    /\ NoCallerObjects
    /\ UNCHANGED <<boundary, content_type, content, parts, attached, parserVars,
                   pureVars>>

NextHeader == \E l \in HeaderLineSet : ParseHeaderLine(l)

SpecHeader == Init /\ [][NextHeader]_vars

\* the name and the value of the line of the last call
LineName == parse_header_name_value(op.before).name
LineValue == parse_header_name_value(op.before).value
\* parse_address_list of the value of that line
LineMailboxes == parse_address_list(LineValue)


(***************************************************************************)
(* Claims on parse_header_line (SpecHeader).                               *)
(***************************************************************************)
\* C12: a From line whose value parses to no top-level address fails with
\* "Bad sender." and leaves the sender as it was; a From line whose value parses to
\* one or more top-level addresses makes the first of them the sender.
C12_FromKeepsFirstOrFails ==
    [][(op'.name = "parse_header_line" /\ iequals(LineName', FROM_HEADER))
         => \A mbx \in {LineMailboxes'} :
                ~mbx.thrown
                    => IF mbx.value.addresses = <<>>
                       THEN thrown' = BadSenderError /\ sender' = sender
                       ELSE thrown' = NoError /\ sender' = mbx.value.addresses[1]]_vars

\* a From line with a group alone has failed on a message whose sender was set
C12_Witness ==
    /\ op.name = "parse_header_line" /\ iequals(LineName, FROM_HEADER)
    /\ ~LineMailboxes.thrown
    /\ LineMailboxes.value.addresses = <<>> /\ LineMailboxes.value.groups # <<>>
    /\ thrown = BadSenderError /\ sender # EmptyAddress

\* C13: a To line that is accepted makes recipients the parse of its value alone
\* and a Cc line that is accepted makes cc_recipients the parse of its value alone,
\* whatever they held before; a To line changes no other message-level field, a Cc
\* line neither, and no other line changes recipients or cc_recipients.
C13_ToAndCcReplace ==
    [][(op'.name = "parse_header_line")
         => /\ (iequals(LineName', TO_HEADER) /\ thrown' = NoError)
                 => /\ recipients' = LineMailboxes'.value
                    /\ UNCHANGED <<sender, reply_address, cc_recipients,
                                   bcc_recipients, subject, date_time>>
            /\ (iequals(LineName', CC_HEADER) /\ thrown' = NoError)
                 => /\ cc_recipients' = LineMailboxes'.value
                    /\ UNCHANGED <<sender, reply_address, recipients,
                                   bcc_recipients, subject, date_time>>
            /\ ~iequals(LineName', TO_HEADER) => recipients' = recipients
            /\ ~iequals(LineName', CC_HEADER) => cc_recipients' = cc_recipients]_vars

\* a To line with one address has been accepted by a message that has a sender and
\* cc recipients
C13_Witness ==
    /\ op.name = "parse_header_line" /\ iequals(LineName, TO_HEADER)
    /\ thrown = NoError
    /\ Len(LineMailboxes.value.addresses) = 1 /\ recipients = LineMailboxes.value
    /\ cc_recipients # EmptyMailboxes /\ sender # EmptyAddress

\* C14: a Bcc line (the name in any case) with a valid address list stores the
\* mailboxes parsed from its value in bcc_recipients.
C14_BccLineStored ==
    (/\ op.name = "parse_header_line"
     /\ iequals(LineName, BCC_HEADER)
     /\ ~LineMailboxes.thrown)
        => bcc_recipients = LineMailboxes.value

\* C18: a call of parse_header_line that fails leaves sender, reply address,
\* recipients, cc_recipients, bcc_recipients, subject, date and time and MIME
\* version as they were before the call.
C18_FailedLineChangesNothing ==
    [][(op'.name = "parse_header_line" /\ thrown' # NoError)
         => UNCHANGED <<sender, reply_address, recipients, cc_recipients,
                        bcc_recipients, subject, date_time, version>>]_vars

\* a Date line has failed on a message whose fields had been set by earlier lines
C18_Witness ==
    /\ op.name = "parse_header_line" /\ thrown = BadDateError
    /\ date_time.day = 7 /\ sender # EmptyAddress
    /\ recipients # EmptyMailboxes /\ subject # <<>>


(***************************************************************************)
(* SpecFormat: a message built with the setters of the header fields and   *)
(* with attach, then formatted.                                            *)
(***************************************************************************)
\* void message::reply_address(const mail_address& mail)
SetReplyAddress(mail) ==
    /\ reply_address' = mail
    /\ op' = [NoOp EXCEPT !.name = "reply_address"]
    /\ SetterFrame
    /\ UNCHANGED <<sender, recipients, cc_recipients, bcc_recipients, subject,
                   date_time>>

\* void message::add_cc_recipient(const mail_address& mail)
AddCcRecipient(mail) ==
    /\ Len(cc_recipients.addresses) < MaxCc
    /\ cc_recipients' = [cc_recipients EXCEPT !.addresses = Append(@, mail)]
    /\ op' = [NoOp EXCEPT !.name = "add_cc_recipient"]
    /\ SetterFrame
    /\ UNCHANGED <<sender, reply_address, recipients, bcc_recipients, subject,
                   date_time>>

\* void message::add_bcc_recipient(const mail_address& mail)
AddBccRecipient(mail) ==
    /\ Len(bcc_recipients.addresses) < MaxCc
    /\ bcc_recipients' = [bcc_recipients EXCEPT !.addresses = Append(@, mail)]
    /\ op' = [NoOp EXCEPT !.name = "add_bcc_recipient"]
    /\ SetterFrame
    /\ UNCHANGED <<sender, reply_address, recipients, cc_recipients, subject,
                   date_time>>

NextFormat ==
    \/ SetSender(mail_address(<<>>, <<"a", "@", "b">>))
    \/ \E a \in RoundAddresses : SetReplyAddress(a)
    \/ AddRecipient(mail_address(<<>>, <<"a", "@", "b">>))
    \/ AddCcRecipient(mail_address(<<>>, <<"c", "@", "d">>))
    \/ AddBccRecipient(mail_address(<<>>, <<"e", "@", "f">>))
    \/ SetSubject(<<"h", "i">>)
    \/ SetDateTime(not_a_date_time)
    \/ Attach(<<"x">>, <<"f">>, "APPLICATION", <<"p">>)
    \/ Format(<<>>)

SpecFormat == InitRound /\ [][NextFormat]_vars

\* the names of the header lines at the head of message_str, in their order
FormattedNames ==
    CHOOSE r \in {[i \in 1..Len(lines) |-> parse_header_name_value(lines[i]).name] :
                     lines \in {HeaderLines(message_str, 1)}} : TRUE

\* the names of the lines that mime::format_header gives for the message
CollaboratorNames ==
    CHOOSE r \in {[i \in 1..Len(lines) |-> parse_header_name_value(lines[i]).name] :
                     lines \in {HeaderLines(mime_format_header(Msg) \o CRLF, 1)}} : TRUE


\* the header names format_header is to write for the message, withReply
\* saying whether the Reply-To line is among them
ExpectedNames(withReply) ==
    <<FROM_HEADER>>
    \o (IF withReply THEN <<REPLY_TO_HEADER>> ELSE <<>>)
    \o <<TO_HEADER>>
    \o (IF mailboxes_empty(cc_recipients) THEN <<>> ELSE <<CC_HEADER>>)
    \o (IF mailboxes_empty(bcc_recipients) THEN <<>> ELSE <<BCC_HEADER>>)
    \o (IF date_time.is_not_a_date_time THEN <<>> ELSE <<DATE_HEADER>>)
    \o (IF parts # <<>> THEN <<MIME_VERSION_HEADER>> ELSE <<>>)
    \o CollaboratorNames
    \o <<SUBJECT_HEADER>>

\* the length of the header lines at the head of message_str, line breaks
\* included
RECURSIVE LinesLength(_, _)
LinesLength(lines, i) ==
    IF i > Len(lines) THEN 0 ELSE Len(lines[i]) + 2 + LinesLength(lines, i + 1)

\* the header block of message_str ends with an empty line
BlankLineFollows ==
    \E n \in {LinesLength(HeaderLines(message_str, 1), 1)} :
        /\ n + 2 <= Len(message_str)
        /\ SubSeq(message_str, n + 1, n + 2) = CRLF

\* C15: a formatted header has its lines in the order From, Reply-To, To,
\* Cc, Bcc, Date, MIME-Version, the headers of the content type, Subject and
\* then an empty line; From, To and Subject are always there, Cc and Bcc only
\* with a recipient of their kind, Date only when a date is set, MIME-Version
\* only when the message has a part.
C15_HeaderOrder ==
    (op.name = "format" /\ thrown = NoError)
        => /\ \E names \in {FormattedNames} :
                names \in {ExpectedNames(TRUE), ExpectedNames(FALSE)}
           /\ BlankLineFollows

C15_Witness ==
    /\ op.name = "format" /\ thrown = NoError
    /\ FormattedNames = <<FROM_HEADER, REPLY_TO_HEADER, TO_HEADER, CC_HEADER,
                          BCC_HEADER, DATE_HEADER, MIME_VERSION_HEADER>>
                        \o CollaboratorNames \o <<SUBJECT_HEADER>>
    /\ CollaboratorNames # <<>>

\* C16: the Reply-To line is written exactly when the reply address is not
\* empty, a reply address without a name included.
C16_ReplyToWhenNotEmpty ==
    (op.name = "format" /\ thrown = NoError)
        => \E names \in {FormattedNames} :
             (\E i \in 1..Len(names) : names[i] = REPLY_TO_HEADER)
                <=> reply_address # EmptyAddress


\* C17: format of a message with parts writes the header, the content, a line
\* break, every part in its order between boundary lines and the closing
\* boundary line; the line break before the first boundary line is there
\* whether the content is empty or not; a message without parts gets no line
\* break and no boundary line.
C17_SeparatorBeforeParts ==
    (op.name = "format" /\ thrown = NoError)
        => message_str =
             op.before \o format_header(Msg).value \o format_content(Msg)
             \o (IF parts # <<>>
                 THEN CRLF \o FormatParts(Msg, 1)
                      \o <<"-", "-">> \o boundary \o <<"-", "-">> \o CRLF
                 ELSE <<>>)


\* C19: whenever parse_address_list takes the closing bracket of a bracketed
\* address without failing, the address it has just stored has an "@" in it:
\* an "@" read for an earlier mailbox never stands in for one between the
\* brackets.
C19_BracketedAddressHasMonkey ==
    [][(~pdone /\ pal.state = "ADDRBRBEG" /\ pos' = pos + 1
          /\ lastch' = GREATER_THAN_CHAR /\ ~pal'.thrown)
         => \E a \in {pal'.mail_addrs[Len(pal'.mail_addrs)].address} :
              \E i \in 1..Len(a) : a[i] = MONKEY_CHAR]_vars

\* C20: in the state after the closing bracket a character other than white
\* space, comma, semicolon and "(" makes parse_address_list fail; it is never
\* skipped.
C20_AddrBrEndRejectsOthers ==
    [][(~pdone /\ pal.state = "ADDRBREND" /\ pos' = pos + 1
          /\ ~isspace(lastch')
          /\ lastch' \notin {COMMA_CHAR, SEMICOLON_CHAR, LEFT_PARENTHESIS_CHAR})
         => pal'.thrown]_vars


\* C21: a semicolon read outside a quoted name while no group is open makes
\* parse_address_list fail, also right after a group has been closed.
C21_SemicolonOutsideGroupFails ==
    [][(~pdone /\ pos' = pos + 1 /\ lastch' = SEMICOLON_CHAR
          /\ ~pal.group_found /\ pal.state # "QNAMEADDRBEG")
         => pal'.thrown]_vars


\* C22: a group enters the result of parse_address_list only at the step that
\* reads its closing semicolon, and an address list that ends while a group
\* is open is refused.
C22_GroupClosedBySemicolon ==
    [][(~pdone /\ pos' = pos + 1 /\ ~pal'.thrown)
         => /\ pal'.mail_group_list # pal.mail_group_list
                 => lastch' = SEMICOLON_CHAR
            /\ pdone' => ~pal'.group_found]_vars


\* C23: when parse_address_list succeeds, every mailbox it completed and still
\* holds in mail_addrs is in the result, among the addresses of the list or
\* among the members of a group: no completed mailbox is lost.
C23_NoMailboxLost ==
    ParseSucceeded
        => \A i \in 1..Len(pal.mail_addrs) :
             \/ \E j \in 1..Len(pal.mail_list) : pal.mail_list[j] = pal.mail_addrs[i]
             \/ \E g \in 1..Len(pal.mail_group_list) :
                  \E j \in 1..Len(pal.mail_group_list[g].members) :
                     pal.mail_group_list[g].members[j] = pal.mail_addrs[i]


\* C24: a colon read after an unquoted token fails while a group is open;
\* outside a group it moves the addresses found so far into the list of the
\* result and begins the group named by the token, with no member yet.
C24_NoNestedGroup ==
    [][(~pdone /\ pos' = pos + 1 /\ pal.state = "NAMEADDRGRP"
          /\ lastch' = COLON_CHAR)
         => IF pal.group_found THEN pal'.thrown
            ELSE \/ pal'.thrown
                 \/ /\ pal'.mail_list = pal.mail_list \o pal.mail_addrs
                    /\ pal'.mail_addrs = <<>>
                    /\ pal'.group_found
                    /\ pal'.cur_group.name = pal.token
                    /\ pal'.mail_group_list = pal.mail_group_list]_vars

\* a colon after a token has failed inside a group: this arm fails for no
\* other reason while the state stays NAMEADDRGRP
C24_Witness ==
    /\ pdone /\ pal.thrown
    /\ pal.state = "NAMEADDRGRP" /\ lastch = COLON_CHAR
    /\ pos >= 4


(***************************************************************************)
(* SpecQuoted: parse_address_list reads an address list with quoted names, *)
(* one character a step, MaxQuoted characters at most.  "@" is the         *)
(* character of the names too: inside quotes it is one of QTEXT.           *)
(***************************************************************************)
QuotedChars == {QUOTE_CHAR, BACKSLASH_CHAR, " ", "<", "@", ">"}

NextQuoted ==
    \/ \E ch \in QuotedChars, last \in BOOLEAN : pos < MaxQuoted /\ ReadChar(ch, last)
    \/ ReturnEmpty

SpecQuoted == Init /\ [][NextQuoted]_vars

\* no name the parser holds has a backslash in it
NoBackslashInNames ==
    /\ \A i \in 1..Len(pal.cur_address.name) : pal.cur_address.name[i] # BACKSLASH_CHAR
    /\ \A k \in 1..Len(pal.mail_addrs) :
          \A i \in 1..Len(pal.mail_addrs[k].name) :
             pal.mail_addrs[k].name[i] # BACKSLASH_CHAR
    /\ \A k \in 1..Len(pal.mail_list) :
          \A i \in 1..Len(pal.mail_list[k].name) :
             pal.mail_list[k].name[i] # BACKSLASH_CHAR

\* C25: inside a quoted name a backslash is read and left out of the name;
\* after the closing quote every character but white space and "<" makes
\* parse_address_list fail; and an address list that ends inside the quotes or
\* after the closing quote before its bracketed address is refused.
C25_QuotedName ==
    [][(~pdone /\ pos' = pos + 1)
         => /\ (pal.state = "QNAMEADDRBEG" /\ lastch' = BACKSLASH_CHAR /\ ~pal'.thrown)
                 => pal'.token = pal.token
            /\ NoBackslashInNames'
            /\ (pal.state = "QNAMEADDREND" /\ ~isspace(lastch')
                  /\ lastch' # LESS_THAN_CHAR)
                 => pal'.thrown
            /\ (pdone' /\ pal.state \in {"QNAMEADDRBEG", "QNAMEADDREND"})
                 => pal'.thrown
            /\ (pdone' /\ pal'.state \in {"QNAMEADDRBEG", "QNAMEADDREND"})
                 => pal'.thrown]_vars

\* a backslash has been read inside the quotes, after a character of the name
C25_Witness ==
    /\ ~pdone /\ ~pal.thrown
    /\ pal.state = "QNAMEADDRBEG" /\ lastch = BACKSLASH_CHAR
    /\ pal.token = <<"@">>

(***************************************************************************)
(* SpecMailbox: format_mailbox of a mailbox collection, then               *)
(* parse_address_list of the text it gives.                                *)
(***************************************************************************)
MailboxAddresses ==
    {mail_address(<<>>, <<"a", "@", "b">>), mail_address(<<"n">>, <<"c", "@", "d">>)}

MailboxGroups ==
    {mail_group(<<"g">>, m) : m \in TextsUpTo(MailboxAddresses, MaxRcpt)}

InitMailbox ==
    /\ InitMessage /\ IdleCaller /\ IdleParser
    /\ arg \in [addresses : TextsUpTo(MailboxAddresses, MaxRcpt),
                groups : TextsUpTo(MailboxGroups, 1)]
    /\ res = NotApplied

\* format_mailbox(arg), and parse_address_list of its value
FormatMailboxThenParse ==
    /\ ~res.applied
    /\ \E f \in {format_mailbox(arg)} :
         res' = [applied |-> TRUE, formatted |-> f,
                 parsed |-> IF f.thrown THEN NotApplied.parsed
                            ELSE parse_address_list(f.value)]
    /\ UNCHANGED <<arg, mimeVars, headerVars, callerVars, historyVars, parserVars>>

NextMailbox == FormatMailboxThenParse

SpecMailbox == InitMailbox /\ [][NextMailbox]_vars

\* C26: parse_address_list of the text format_mailbox gives for a mailbox
\* collection succeeds and returns the collection: the same addresses and
\* the same groups with the same members, in their order.
C26_FormatMailboxReparses ==
    (res.applied /\ ~res.formatted.thrown)
        => /\ ~res.parsed.thrown
           /\ res.parsed.value = arg


\* C27: for a text that matches the date pattern, the text handed to the date
\* reader has the day of one digit with a zero before it, whether a blank or
\* a tab follows the day, and the day of two digits as it is.
C27_OneDigitDayPadded ==
    (res.applied /\ DateRegexMatch(arg).matched)
        => \E m \in {DateRegexMatch(arg)} :
             DateReaderText(m)
               = m.m1 \o <<" ">>
                 \o (IF m.m2[2] \in DigitClass THEN <<>> ELSE <<"0">>)
                 \o m.m2 \o <<" ">> \o substr(m.m3, 0, 12) \o <<":">>
                 \o substr_from(m.m3, 12)


\* the twelve states that the cases of parse_address_list assign
AssignedStates ==
    {"BEGIN", "NAMEADDRGRP", "QNAMEADDRBEG", "ADDR", "NAME", "QNAMEADDREND",
     "ADDRBRBEG", "ADDRBREND", "GROUPBEG", "GROUPEND", "COMMBEG", "COMMEND"}

\* C28: after every character read the state of parse_address_list is one of
\* the twelve states other than EOL, so the case EOL is never run.
C28_EolUnreachable == pal.state \in AssignedStates

\* a comment has been closed and white space read after it, the last of the
\* twelve states
C28_Witness ==
    /\ ~pal.thrown /\ pal.state = "COMMEND" /\ lastch = " "
    /\ pal.mail_list # <<>>


====
